---- MODULE Spec2Model ----
(***************************************************************************)
(* A model of smart_home_system.py: the device classes, the observer list  *)
(* of a device, DeviceProxy, SmartHomeHub and its scheduler loop.          *)
(*                                                                         *)
(* Objects live in a heap (a sequence of device records; a reference is an *)
(* index).  A Python dict is a sequence of key/value entries in insertion  *)
(* order.  None is the empty sequence <<>>, a present optional value v is  *)
(* <<v>>.  A hub method is an operator from a hub record                   *)
(*   [heap, devices, scheduled_tasks, automated_triggers, delivered]       *)
(* to a result record [h, raised, printed, ret]: the hub after the call,   *)
(* the exception that left the call (<<>> if it returned), the lines it    *)
(* printed, and the value it returned.  `delivered` is the sequence of     *)
(* Observer.update calls made so far.                                      *)
(***************************************************************************)
EXTENDS Integers, Sequences, FiniteSets, TLC

\* ------------------------------------------------------------------ bounds
MaxObjs == 3        \* devices ever constructed
MaxTasks == 2       \* length of scheduled_tasks
MaxTriggers == 1    \* length of automated_triggers
MaxSubs == 2        \* length of one device's observers list
MaxLog == 2         \* length of the delivery log
MaxTicksAfterCancel == 2  \* ticks begun after a cancellation request
MaxEntries == 3     \* length of an observers list handed to one call

None == <<>>

\* ------------------------------------------------------------------ inputs
DeviceIds == {1, 2}
Temperatures == {0, 65}
\* (device_type, initial_status, initial_temperature) of create_device/add_device
CreateInputs ==
    {<<"light", None, None>>, <<"light", <<"on">>, None>>, <<"light", <<"off">>, None>>,
     <<"thermostat", None, None>>, <<"thermostat", None, <<0>>>>,
     <<"thermostat", None, <<65>>>>,
     <<"door", None, None>>, <<"door", <<"locked">>, None>>,
     <<"door", <<"unlocked">>, None>>, <<"door", <<"">>, None>>,
     <<"fridge", None, None>>}
DefaultInputs ==
    {<<"light", None, None>>, <<"thermostat", None, None>>, <<"door", None, None>>}
SchedInputs == {<<"light", None, None>>, <<"thermostat", None, None>>}
Observers == {"o1", "o2"}
Times == {"06:00", "06:01"}
Commands == {"turn_on(1)", "turn_off(1)", "remove_device(1)",
             "set_schedule(2, '06:00', 'turn_on(1)')", "turn_on(1", "blink(1)"}
\* a command text that names an attribute of the hub instead of a hub method
EvalCommands == Commands \cup {"scheduled_tasks.clear()"}
\* (device_id, time, action) of set_schedule
\* (device_id, device_type, initial_status, initial_temperature) of a call
Calls(ids, inputs) == {<<id, a[1], a[2], a[3]>> : id \in ids, a \in inputs}
\* the devices of the example (lines 243-245)
ExampleCalls ==
    {<<1, "light", <<"off">>, None>>, <<2, "thermostat", None, <<70>>>>,
     <<3, "door", <<"locked">>, None>>}
ExampleIds == {1, 2, 3}
ExampleTask == <<2, "06:00", "turn_on(1)">>
TaskInputs == {<<2, "06:00", c>> : c \in Commands} \cup {<<2, "06:01", "turn_on(1)">>}

\* ------------------------------------------------------------ result records
Return(h, printed, ret) ==
    [h |-> h, raised |-> None, printed |-> printed, ret |-> ret]

Raise(h, printed, exc) ==
    [h |-> h, raised |-> <<exc>>, printed |-> printed, ret |-> None]

\* ------------------------------------------------------------------ dict
DictHas(d, k) == \E i \in 1..Len(d) : d[i].key = k

DictIndex(d, k) == CHOOSE i \in 1..Len(d) : d[i].key = k

DictGet(d, k) == d[DictIndex(d, k)].value

DictSet(d, k, v) ==
    IF DictHas(d, k)
    THEN [d EXCEPT ![DictIndex(d, k)].value = v]
    ELSE Append(d, [key |-> k, value |-> v])

DictDel(d, k) ==
    LET n == DictIndex(d, k)
    IN  SubSeq(d, 1, n - 1) \o SubSeq(d, n + 1, Len(d))

\* ------------------------------------------------------------------ Device
Device(device_id, device_type) ==
    [device_id |-> device_id, device_type |-> device_type, observers |-> <<>>]

Light(device_id) == Device(device_id, "light") @@ [status |-> "off"]

Thermostat(device_id) == Device(device_id, "thermostat") @@ [temperature |-> 70]

DoorLock(device_id) == Device(device_id, "door") @@ [status |-> "locked"]

\* isinstance(device, Light) and so on: the class is fixed by the constructor
IsLight(dev) == dev.device_type = "light"
IsThermostat(dev) == dev.device_type = "thermostat"
IsDoorLock(dev) == dev.device_type = "door"

add_observer(h, ref, observer) ==
    Return([h EXCEPT !.heap[ref].observers = Append(@, observer)], <<>>, None)

\* faulty variant: every matching entry is removed
RemoveFirst_every_match(s, x) == SelectSeq(s, LAMBDA y : y # x)

RemoveFirst(s, x) ==
    LET n == CHOOSE i \in 1..Len(s) : s[i] = x /\ \A j \in 1..(i - 1) : s[j] # x
    IN  SubSeq(s, 1, n - 1) \o SubSeq(s, n + 1, Len(s))

remove_observer(h, ref, observer) ==
    IF \E i \in 1..Len(h.heap[ref].observers) : h.heap[ref].observers[i] = observer
    THEN Return([h EXCEPT !.heap[ref].observers = RemoveFirst(@, observer)], <<>>, None)
    ELSE Raise(h, <<>>, "ValueError")

\* faulty variant: the message goes to every observer there is, subscribed or not
notify_observers_broadcast(h, ref, message) ==
    [h EXCEPT !.delivered =
        @ \o <<[observer |-> "o1", message |-> message],
                [observer |-> "o2", message |-> message]>>]

notify_observers(h, ref, message) ==
    LET obs == h.heap[ref].observers
    IN  [h EXCEPT !.delivered =
            @ \o [i \in 1..Len(obs) |-> [observer |-> obs[i], message |-> message]]]

Light_turn_on(h, ref) ==
    LET h1 == [h EXCEPT !.heap[ref].status = "on"]
    IN  notify_observers(h1, ref, "Light is turned on (" \o h1.heap[ref].status \o ")")

\* faulty variant: the observers are notified before the status is assigned
Light_turn_off_notify_first(h, ref) ==
    LET h1 == notify_observers(h, ref, "Light is turned off (" \o h.heap[ref].status \o ")")
    IN  [h1 EXCEPT !.heap[ref].status = "off"]

Light_turn_off(h, ref) ==
    LET h1 == [h EXCEPT !.heap[ref].status = "off"]
    IN  notify_observers(h1, ref, "Light is turned off (" \o h1.heap[ref].status \o ")")

Thermostat_set_temperature(h, ref, temperature) ==
    LET h1 == [h EXCEPT !.heap[ref].temperature = temperature]
    IN  notify_observers(h1, ref, "Thermostat temperature set to "
                                  \o ToString(h1.heap[ref].temperature) \o " degrees")

DoorLock_lock(h, ref) ==
    LET h1 == [h EXCEPT !.heap[ref].status = "locked"]
    IN  notify_observers(h1, ref, "Door is locked")

DoorLock_unlock(h, ref) ==
    LET h1 == [h EXCEPT !.heap[ref].status = "unlocked"]
    IN  notify_observers(h1, ref, "Door is unlocked")

Device_status_report(dev) ==
    CASE IsLight(dev) -> "Light " \o ToString(dev.device_id) \o " is " \o dev.status \o "."
      [] IsThermostat(dev) -> "Thermostat is set to " \o ToString(dev.temperature) \o " degrees."
      [] IsDoorLock(dev) -> "Door is " \o dev.status \o "."

\* device.turn_on() / device.turn_off(): only Light defines them
Device_turn_on(h, ref) ==
    IF IsLight(h.heap[ref])
    THEN Return(Light_turn_on(h, ref), <<>>, None)
    ELSE Raise(h, <<>>, "AttributeError")

Device_turn_off(h, ref) ==
    IF IsLight(h.heap[ref])
    THEN Return(Light_turn_off(h, ref), <<>>, None)
    ELSE Raise(h, <<>>, "AttributeError")

\* ------------------------------------------------------------- DeviceProxy
\* faulty variant: the proxy finds its device through the registry, by id
DeviceProxy_turn_on_by_id(h, ref) ==
    LET device_id == h.heap[ref].device_id
    IN  IF DictHas(h.devices, device_id)
        THEN Device_turn_on(h, DictGet(h.devices, device_id).ref)
        ELSE Device_turn_on(h, ref)

DeviceProxy_turn_on(h, ref) == Device_turn_on(h, ref)

DeviceProxy_turn_off(h, ref) == Device_turn_off(h, ref)

DeviceProxy_set_temperature(h, ref, temperature) ==
    IF IsThermostat(h.heap[ref])
    THEN Return(Thermostat_set_temperature(h, ref, temperature), <<>>, None)
    ELSE Return(h, <<"This device does not support temperature control.">>, None)

\* faulty variant: the rejection is sent to the observers instead of being printed
DeviceProxy_lock_notifies(h, ref) ==
    IF IsDoorLock(h.heap[ref])
    THEN Return(DoorLock_lock(h, ref), <<>>, None)
    ELSE Return(notify_observers(h, ref, "This device does not support locking."),
                <<>>, None)

DeviceProxy_lock(h, ref) ==
    IF IsDoorLock(h.heap[ref])
    THEN Return(DoorLock_lock(h, ref), <<>>, None)
    ELSE Return(h, <<"This device does not support locking.">>, None)

DeviceProxy_unlock(h, ref) ==
    IF IsDoorLock(h.heap[ref])
    THEN Return(DoorLock_unlock(h, ref), <<>>, None)
    ELSE Return(h, <<"This device does not support unlocking.">>, None)

DeviceProxy_status_report(h, ref) ==
    Return(h, <<>>, <<Device_status_report(h.heap[ref])>>)

\* ------------------------------------------------------------ SmartHomeHub
\* a value of the devices dict: the device itself or a DeviceProxy around it
DeviceValue(ref) == [proxy |-> FALSE, ref |-> ref]
ProxyValue(ref) == [proxy |-> TRUE, ref |-> ref]

SmartHomeHub ==
    [heap |-> <<>>, devices |-> <<>>, scheduled_tasks |-> <<>>,
     automated_triggers |-> <<>>, delivered |-> <<>>]

\* create_device past its duplicate check: construct, initialise, register
construct_device(h, device_id, device_type, initial_status, initial_temperature) ==
      LET ref == Len(h.heap) + 1
          new(dev) == [h EXCEPT !.heap = Append(@, dev)]
          made ==
            CASE device_type = "light" -> <<new(Light(device_id))>>
              [] device_type = "thermostat" ->
                   IF initial_temperature # None
                   THEN <<Thermostat_set_temperature(new(Thermostat(device_id)), ref,
                                                     initial_temperature[1])>>
                   ELSE <<new(Thermostat(device_id))>>
              [] device_type = "door" ->
                   IF initial_status # None
                   THEN IF initial_status[1] = "locked"
                        THEN <<DoorLock_lock(new(DoorLock(device_id)), ref)>>
                        ELSE IF initial_status[1] = "unlocked"
                             THEN <<DoorLock_unlock(new(DoorLock(device_id)), ref)>>
                             ELSE <<new(DoorLock(device_id))>>
                   ELSE <<new(DoorLock(device_id))>>
              [] OTHER -> None
      IN  IF made = None
          THEN Raise(h, <<>>, "ValueError")
          ELSE Return([made[1] EXCEPT !.devices = DictSet(@, device_id, DeviceValue(ref))],
                      <<>>, <<ProxyValue(ref)>>)

\* faulty variant: the duplicate is reported but the `return` is missing
create_device_noreturn(h, device_id, device_type, initial_status, initial_temperature) ==
    LET r == construct_device(h, device_id, device_type, initial_status,
                              initial_temperature)
    IN  IF DictHas(h.devices, device_id)
        THEN [r EXCEPT !.printed = <<"Device with ID " \o ToString(device_id)
                                     \o " already exists.">> \o @]
        ELSE r

create_device(h, device_id, device_type, initial_status, initial_temperature) ==
    IF DictHas(h.devices, device_id)
    THEN Return(h, <<"Device with ID " \o ToString(device_id) \o " already exists.">>, None)
    ELSE construct_device(h, device_id, device_type, initial_status, initial_temperature)

\* self.devices[device_id].turn_on(): the entry is a device or a proxy
turn_on(h, device_id) ==
    IF DictHas(h.devices, device_id)
    THEN LET v == DictGet(h.devices, device_id)
         IN  IF v.proxy THEN DeviceProxy_turn_on(h, v.ref) ELSE Device_turn_on(h, v.ref)
    ELSE Return(h, <<"Device with ID " \o ToString(device_id) \o " not found.">>, None)

\* faulty variant: the first registered device is used, not the one the id names
turn_off_first_entry(h, device_id) ==
    IF DictHas(h.devices, device_id)
    THEN LET v == h.devices[1].value
         IN  IF v.proxy THEN DeviceProxy_turn_off(h, v.ref) ELSE Device_turn_off(h, v.ref)
    ELSE Return(h, <<"Device with ID " \o ToString(device_id) \o " not found.">>, None)

turn_off(h, device_id) ==
    IF DictHas(h.devices, device_id)
    THEN LET v == DictGet(h.devices, device_id)
         IN  IF v.proxy THEN DeviceProxy_turn_off(h, v.ref) ELSE Device_turn_off(h, v.ref)
    ELSE Return(h, <<"Device with ID " \o ToString(device_id) \o " not found.">>, None)

set_schedule(h, device_id, time, action) ==
    Return([h EXCEPT !.scheduled_tasks =
                Append(@, [device |-> device_id, time |-> time, action |-> action])],
           <<"Scheduled Task: [" \o time \o "] - " \o action>>, None)

add_trigger(h, condition, action) ==
    Return([h EXCEPT !.automated_triggers =
                Append(@, [condition |-> condition, action |-> action])],
           <<"Automated Trigger: [" \o condition \o "] - " \o action>>, None)

\* faulty variant: a creation that fails is retried as a light and stored
add_device_fallback_light(h, device_id, device_type, initial_status, initial_temperature) ==
    IF DictHas(h.devices, device_id)
    THEN Return(h, <<"Device with ID " \o ToString(device_id) \o " already exists.">>, None)
    ELSE
      LET r0 == create_device(h, device_id, device_type, initial_status, initial_temperature)
          r == IF r0.raised # None
               THEN create_device(h, device_id, "light", None, None)
               ELSE r0
      IN  Return([r.h EXCEPT !.devices = DictSet(@, device_id, r.ret[1])],
                 r.printed \o <<"Added new " \o device_type \o " with ID "
                                \o ToString(device_id) \o ".">>,
                 None)

add_device(h, device_id, device_type, initial_status, initial_temperature) ==
    IF DictHas(h.devices, device_id)
    THEN Return(h, <<"Device with ID " \o ToString(device_id) \o " already exists.">>, None)
    ELSE
      LET r == create_device(h, device_id, device_type, initial_status, initial_temperature)
      IN  IF r.raised # None
          THEN r
          ELSE Return([r.h EXCEPT !.devices = DictSet(@, device_id, r.ret[1])],
                      r.printed \o <<"Added new " \o device_type \o " with ID "
                                     \o ToString(device_id) \o ".">>,
                      None)

\* faulty variant: the message is built before the entry is deleted
remove_device_print_first(h, device_id) ==
    IF DictHas(h.devices, device_id)
    THEN LET device == DictGet(h.devices, device_id)
         IN  IF device.proxy
             THEN Raise(h, <<>>, "AttributeError")
             ELSE Return([h EXCEPT !.devices = DictDel(@, device_id)],
                         <<"Removed " \o h.heap[device.ref].device_type \o " with ID "
                           \o ToString(device_id) \o ".">>, None)
    ELSE Return(h, <<"Device with ID " \o ToString(device_id) \o " not found.">>, None)

\* the entry is deleted before the message reads device.device_type, which a
\* DeviceProxy does not have
remove_device(h, device_id) ==
    IF DictHas(h.devices, device_id)
    THEN LET device == DictGet(h.devices, device_id)
             h1 == [h EXCEPT !.devices = DictDel(@, device_id)]
         IN  IF device.proxy
             THEN Raise(h1, <<>>, "AttributeError")
             ELSE Return(h1, <<"Removed " \o h.heap[device.ref].device_type \o " with ID "
                               \o ToString(device_id) \o ".">>, None)
    ELSE Return(h, <<"Device with ID " \o ToString(device_id) \o " not found.">>, None)

\* faulty variant: "".join(report)
RECURSIVE Join_no_separator(_)
Join_no_separator(report) ==
    IF report = <<>> THEN ""
    ELSE report[1] \o Join_no_separator(Tail(report))

RECURSIVE Join(_)
Join(report) ==
    IF report = <<>> THEN ""
    ELSE IF Len(report) = 1 THEN report[1]
    ELSE report[1] \o " " \o Join(Tail(report))

status_report(h) ==
    LET report == [i \in 1..Len(h.devices) |->
                      Device_status_report(h.heap[h.devices[i].value.ref])]
    IN  Return(h, <<>>, <<Join(report)>>)

\* eval(f"self.{command}"): the call the text denotes, or the exception eval raises
Parse(command) ==
    CASE command = "turn_on(1)" -> [method |-> "turn_on", args |-> <<1>>]
      [] command = "turn_off(1)" -> [method |-> "turn_off", args |-> <<1>>]
      [] command = "remove_device(1)" -> [method |-> "remove_device", args |-> <<1>>]
      [] command = "set_schedule(2, '06:00', 'turn_on(1)')" ->
             [method |-> "set_schedule", args |-> <<2, "06:00", "turn_on(1)">>]
      [] command = "turn_on(1" -> [method |-> "SyntaxError", args |-> <<>>]
      [] command = "blink(1)" -> [method |-> "blink", args |-> <<1>>]
      [] command = "scheduled_tasks.clear()" ->
             [method |-> "scheduled_tasks.clear", args |-> <<>>]

\* the call eval makes on the hub for a parsed command
Invoke(h, c) ==
    CASE c.method = "turn_on" -> turn_on(h, c.args[1])
      [] c.method = "turn_off" -> turn_off(h, c.args[1])
      [] c.method = "remove_device" -> remove_device(h, c.args[1])
      [] c.method = "set_schedule" -> set_schedule(h, c.args[1], c.args[2], c.args[3])
      [] c.method = "scheduled_tasks.clear" ->
             Return([h EXCEPT !.scheduled_tasks = <<>>], <<>>, None)
      [] c.method = "SyntaxError" -> Raise(h, <<>>, "SyntaxError")
      [] OTHER -> Raise(h, <<>>, "AttributeError")

\* faulty variant: no try/except around eval
execute_command_no_try(h, command) == Invoke(h, Parse(command))

execute_command(h, command) ==
    LET c == Parse(command)
        r == Invoke(h, c)
    IN  IF r.raised # None
        THEN Return(r.h, r.printed \o <<"Error executing command: " \o r.raised[1]>>, None)
        ELSE Return(r.h, r.printed, None)

\* ------------------------------------------------------------------- state
VARIABLES
    heap,                \* the device objects constructed so far
    devices,             \* SmartHomeHub.devices
    scheduled_tasks,     \* SmartHomeHub.scheduled_tasks
    automated_triggers,  \* SmartHomeHub.automated_triggers
    delivered,           \* the Observer.update calls made so far, in order
    proxies,             \* the devices whose DeviceProxy the caller kept
    last,                \* the caller's last call: [op, raised, printed, ret]
    sched,               \* run_scheduled_tasks: [pc, current_time, i], and n, the
                         \* length of scheduled_tasks when the current tick began
    fired,               \* indexes of the tasks dispatched in the current tick
    cancel               \* [requested, ticks]: cancellation asked for, ticks begun since

vars == <<heap, devices, scheduled_tasks, automated_triggers, delivered, proxies, last,
          sched, fired, cancel>>

Hub == [heap |-> heap, devices |-> devices, scheduled_tasks |-> scheduled_tasks,
        automated_triggers |-> automated_triggers, delivered |-> delivered]

\* an object no reference leads to any more (not in hub.devices, no proxy kept)
Freed == [device_type |-> "freed", observers |-> <<>>]

Registered(d) == {d[i].value.ref : i \in 1..Len(d)}

Collect(h, kept) ==
    [h EXCEPT !.heap = [ref \in 1..Len(h.heap) |->
        IF ref \in Registered(h.devices) \cup kept THEN h.heap[ref] ELSE Freed]]

\* the devices the caller can reach: through hub.devices or through a kept proxy
Reachable == Registered(devices) \cup proxies

\* the proxies the caller can reach: kept ones and those add_device stored
ProxyRefs ==
    proxies \cup {devices[i].value.ref : i \in {j \in 1..Len(devices) : devices[j].value.proxy}}

WithinBounds(h) ==
    /\ Len(h.heap) <= MaxObjs
    /\ Len(h.scheduled_tasks) <= MaxTasks
    /\ Len(h.automated_triggers) <= MaxTriggers
    /\ Len(h.delivered) <= MaxLog
    /\ \A ref \in 1..Len(h.heap) : Len(h.heap[ref].observers) <= MaxSubs

SetHub(h, kept) ==
    /\ WithinBounds(h)
    /\ heap' = Collect(h, kept).heap
    /\ devices' = h.devices
    /\ scheduled_tasks' = h.scheduled_tasks
    /\ automated_triggers' = h.automated_triggers
    /\ delivered' = h.delivered
    /\ proxies' = kept

\* the caller's thread makes one call; it is blocked once run_scheduled_tasks is called
Call(op, r, kept) ==
    /\ sched.pc = "idle"
    /\ SetHub(r.h, kept)
    /\ last' = [op |-> op, raised |-> r.raised, printed |-> r.printed, ret |-> r.ret]
    /\ UNCHANGED <<sched, fired, cancel>>

Init ==
    /\ heap = SmartHomeHub.heap
    /\ devices = SmartHomeHub.devices
    /\ scheduled_tasks = SmartHomeHub.scheduled_tasks
    /\ automated_triggers = SmartHomeHub.automated_triggers
    /\ delivered = SmartHomeHub.delivered
    /\ proxies = {}
    /\ last = [op |-> "__init__", raised |-> None, printed |-> <<>>, ret |-> None]
    /\ sched = [pc |-> "idle", current_time |-> "", i |-> 0, n |-> 0]
    /\ fired = <<>>
    /\ cancel = [requested |-> FALSE, ticks |-> 0]

\* hub.create_device(...) with the returned proxy dropped (keep = FALSE) or kept
CreateDevice(calls, keep) ==
    \E a \in calls :
        LET r == create_device(Hub, a[1], a[2], a[3], a[4])
        IN  Call("create_device", r,
                 IF keep /\ r.ret # None THEN proxies \cup {r.ret[1].ref} ELSE proxies)

AddDevice(calls) ==
    \E a \in calls :
        Call("add_device", add_device(Hub, a[1], a[2], a[3], a[4]), proxies)

RemoveDevice(ids) ==
    \E id \in ids : Call("remove_device", remove_device(Hub, id), proxies)

TurnOn(ids) ==
    \E id \in ids : Call("turn_on", turn_on(Hub, id), proxies)

TurnOff(ids) ==
    \E id \in ids : Call("turn_off", turn_off(Hub, id), proxies)

SetSchedule(inputs) ==
    \E a \in inputs :
        Call("set_schedule", set_schedule(Hub, a[1], a[2], a[3]), proxies)

AddTrigger ==
    Call("add_trigger", add_trigger(Hub, "device.temperature > 75", "turn_off(1)"), proxies)

StatusReport ==
    Call("status_report", status_report(Hub), proxies)

ProxyTurnOn ==
    \E ref \in ProxyRefs :
        Call("proxy.turn_on", DeviceProxy_turn_on(Hub, ref), proxies)

ProxyTurnOff ==
    \E ref \in ProxyRefs :
        Call("proxy.turn_off", DeviceProxy_turn_off(Hub, ref), proxies)

ProxySetTemperature ==
    \E ref \in ProxyRefs, t \in Temperatures :
        Call("proxy.set_temperature", DeviceProxy_set_temperature(Hub, ref, t),
             proxies)

ProxyLock ==
    \E ref \in ProxyRefs : Call("proxy.lock", DeviceProxy_lock(Hub, ref), proxies)

ProxyUnlock ==
    \E ref \in ProxyRefs :
        Call("proxy.unlock", DeviceProxy_unlock(Hub, ref), proxies)

ProxyStatusReport ==
    \E ref \in ProxyRefs :
        Call("proxy.status_report", DeviceProxy_status_report(Hub, ref), proxies)

AddObserver(observers) ==
    \E ref \in Reachable, o \in observers :
        Call("add_observer", add_observer(Hub, ref, o), proxies)

RemoveObserver(observers) ==
    \E ref \in Reachable, o \in observers :
        Call("remove_observer", remove_observer(Hub, ref, o), proxies)

\* hub.run_scheduled_tasks() is called: the loop is entered and never returns
RunScheduledTasks ==
    /\ sched.pc = "idle"
    /\ sched' = [sched EXCEPT !.pc = "while"]
    /\ last' = [op |-> "run_scheduled_tasks", raised |-> None, printed |-> <<>>,
                ret |-> None]
    /\ UNCHANGED <<heap, devices, scheduled_tasks, automated_triggers, delivered, proxies,
                   fired, cancel>>

\* one pass of `while True`: read the clock, start the for loop over the list
TickBegin ==
    /\ sched.pc = "while"
    /\ cancel.ticks < MaxTicksAfterCancel
    /\ \E now \in Times : sched' = [pc |-> "for", current_time |-> now, i |-> 1,
                                 n |-> Len(scheduled_tasks)]
    /\ fired' = <<>>
    /\ cancel' = IF cancel.requested THEN [cancel EXCEPT !.ticks = @ + 1] ELSE cancel
    /\ UNCHANGED <<heap, devices, scheduled_tasks, automated_triggers, delivered, proxies,
                   last>>

\* faulty variant: the comparison with the current time is missing
Due_always(task, current_time) == TRUE

\* if task["time"] == current_time
Due(task, current_time) == task.time = current_time

\* one iteration of the for loop; the list iterator reads the live list, and an
\* exception that leaves execute_command leaves run_scheduled_tasks too
ForTask ==
    /\ sched.pc = "for"
    /\ sched.i <= Len(scheduled_tasks)
    /\ LET task == scheduled_tasks[sched.i]
       IN  IF Due(task, sched.current_time)
           THEN LET r == execute_command(Hub, task.action)
                IN  /\ SetHub(r.h, proxies)
                    /\ fired' = Append(fired, sched.i)
                    /\ sched' = IF r.raised # None
                                THEN [sched EXCEPT !.pc = "raised"]
                                ELSE [sched EXCEPT !.i = @ + 1]
           ELSE /\ UNCHANGED <<heap, devices, scheduled_tasks, automated_triggers,
                               delivered, proxies>>
                /\ fired' = fired
                /\ sched' = [sched EXCEPT !.i = @ + 1]
    /\ UNCHANGED <<last, cancel>>

\* the for loop is exhausted: sleep(60), then back to the top of the while loop
Sleep ==
    /\ sched.pc = "for"
    /\ sched.i > Len(scheduled_tasks)
    /\ sched' = [sched EXCEPT !.pc = "while"]
    /\ UNCHANGED <<heap, devices, scheduled_tasks, automated_triggers, delivered, proxies,
                   last, fired, cancel>>

\* the environment asks the running scheduler to stop; the loop has no code that reads it
Cancel ==
    /\ sched.pc # "idle"
    /\ ~cancel.requested
    /\ cancel' = [cancel EXCEPT !.requested = TRUE]
    /\ UNCHANGED <<heap, devices, scheduled_tasks, automated_triggers, delivered, proxies,
                   last, sched, fired>>

\* the registry: devices are created, used through the hub, reported and removed
Next ==
    \/ CreateDevice(Calls(DeviceIds, CreateInputs), FALSE)
    \/ AddDevice(Calls(DeviceIds, CreateInputs))
    \/ RemoveDevice(DeviceIds)
    \/ TurnOn(DeviceIds)
    \/ TurnOff(DeviceIds)
    \/ StatusReport

Spec == Init /\ [][Next]_vars

\* the notification channel and the proxies: observers subscribe to one device
\* that is then mutated through the hub and through its proxy
NextNotify ==
    \/ CreateDevice(Calls({1}, DefaultInputs), TRUE)
    \/ AddDevice(Calls({1}, DefaultInputs))
    \/ TurnOn({1})
    \/ TurnOff({1})
    \/ ProxyTurnOn
    \/ ProxyTurnOff
    \/ ProxySetTemperature
    \/ ProxyLock
    \/ ProxyUnlock
    \/ ProxyStatusReport
    \/ AddObserver(Observers)
    \/ RemoveObserver(Observers)

NotifySpec == Init /\ [][NextNotify]_vars

\* the scheduler: the caller sets the hub up, then calls run_scheduled_tasks
NextSched ==
    \/ CreateDevice(Calls({1}, SchedInputs), FALSE)
    \/ AddDevice(Calls({1}, SchedInputs))
    \/ AddObserver({"o1"})
    \/ SetSchedule(TaskInputs)
    \/ RunScheduledTasks
    \/ TickBegin
    \/ ForTask
    \/ Sleep

SchedSpec == Init /\ [][NextSched]_vars

\* the calls of the example (lines 243-257), in any order and with removals
NextMain ==
    \/ AddDevice(ExampleCalls)
    \/ CreateDevice(ExampleCalls, FALSE)
    \/ RemoveDevice(ExampleIds)
    \/ TurnOn({1})
    \/ SetSchedule({ExampleTask})
    \/ AddTrigger
    \/ StatusReport

MainSpec == Init /\ [][NextMain]_vars

\* the scheduler of the example (lines 243-260) and a request to stop it
NextCancel ==
    \/ AddDevice({<<1, "light", <<"off">>, None>>})
    \/ TurnOn({1})
    \/ SetSchedule({ExampleTask})
    \/ RunScheduledTasks
    \/ TickBegin
    \/ ForTask
    \/ Sleep
    \/ Cancel

CancelSpec == Init /\ [][NextCancel]_vars

\* ------------------------------------------------------- the read accessors
\* `return self.scheduled_tasks`: the value returned is the stored list itself
get_scheduled_tasks(h) == Return(h, <<>>, <<[list |-> "scheduled_tasks"]>>)

get_automated_triggers(h) == Return(h, <<>>, <<[list |-> "automated_triggers"]>>)

\* the list object a returned reference denotes, and an update of that object
ListLoad(h, lref) ==
    IF lref.list = "scheduled_tasks" THEN h.scheduled_tasks ELSE h.automated_triggers

ListStore(h, lref, s) ==
    IF lref.list = "scheduled_tasks"
    THEN [h EXCEPT !.scheduled_tasks = s]
    ELSE [h EXCEPT !.automated_triggers = s]

\* the entry a caller appends to a list it was handed
CallerEntry(lref) ==
    IF lref.list = "scheduled_tasks"
    THEN [device |-> 1, time |-> "06:00", action |-> "turn_off(1)"]
    ELSE [condition |-> "", action |-> "turn_off(1)"]

\* the caller still holds the list its last accessor call returned
HoldsList ==
    /\ last.op \in {"get_scheduled_tasks", "get_automated_triggers",
                    "list.append", "del list[0]", "list[0]['action'] = x"}
    /\ last.ret # None

GetScheduledTasks ==
    Call("get_scheduled_tasks", get_scheduled_tasks(Hub), proxies)

GetAutomatedTriggers ==
    Call("get_automated_triggers", get_automated_triggers(Hub), proxies)

\* returned.append(entry)
CallerAppend ==
    /\ HoldsList
    /\ LET lref == last.ret[1]
       IN  Call("list.append",
                Return(ListStore(Hub, lref, Append(ListLoad(Hub, lref), CallerEntry(lref))),
                       <<>>, last.ret),
                proxies)

\* del returned[0]
CallerDelete ==
    /\ HoldsList
    /\ LET lref == last.ret[1]
       IN  /\ ListLoad(Hub, lref) # <<>>
           /\ Call("del list[0]",
                   Return(ListStore(Hub, lref, Tail(ListLoad(Hub, lref))), <<>>, last.ret),
                   proxies)

\* returned[0]["action"] = "turn_off(1)"
CallerEdit ==
    /\ HoldsList
    /\ LET lref == last.ret[1]
       IN  /\ ListLoad(Hub, lref) # <<>>
           /\ Call("list[0]['action'] = x",
                   Return(ListStore(Hub, lref,
                                    [ListLoad(Hub, lref) EXCEPT ![1].action = "turn_off(1)"]),
                          <<>>, last.ret),
                   proxies)

\* the accessors: a caller reads the task and trigger lists, changes what it was
\* handed, and then starts the scheduler
NextAccessor ==
    \/ AddDevice({<<1, "light", <<"off">>, None>>})
    \/ SetSchedule({ExampleTask})
    \/ AddTrigger
    \/ GetScheduledTasks
    \/ GetAutomatedTriggers
    \/ CallerAppend
    \/ CallerDelete
    \/ CallerEdit
    \/ RunScheduledTasks
    \/ TickBegin
    \/ ForTask
    \/ Sleep

AccessorSpec == Init /\ [][NextAccessor]_vars

\* the task list: tasks are stored, also for an id that is not registered, the
\* device they name is removed, and the scheduler dispatches them
NextTask ==
    \/ AddDevice({<<1, "light", <<"off">>, None>>})
    \/ RemoveDevice({1})
    \/ TurnOn({1})
    \/ SetSchedule({<<id, "06:00", c>> :
                        id \in DeviceIds,
                        c \in {"turn_on(1)", "remove_device(1)", "scheduled_tasks.clear()"}})
    \/ RunScheduledTasks
    \/ TickBegin
    \/ ForTask
    \/ Sleep

TaskSpec == Init /\ [][NextTask]_vars

\* hub.turn_on/turn_off among several devices with subscribers, tasks and triggers
NextFrame ==
    \/ CreateDevice(Calls({2}, {<<"light", None, None>>}), FALSE)
    \/ AddDevice(Calls(DeviceIds, {<<"light", None, None>>, <<"thermostat", None, None>>}))
    \/ AddObserver({"o1"})
    \/ TurnOn(DeviceIds)
    \/ TurnOff(DeviceIds)
    \/ SetSchedule({ExampleTask})
    \/ AddTrigger

FrameSpec == Init /\ [][NextFrame]_vars

\* proxies that outlive the registration of their device: the caller keeps the
\* proxy create_device returned, removes the device and registers the id again
NextDetach ==
    \/ CreateDevice(Calls({1}, {<<"light", None, None>>}), TRUE)
    \/ RemoveDevice({1})
    \/ AddObserver({"o1"})
    \/ ProxyTurnOn
    \/ ProxyLock
    \/ StatusReport

DetachSpec == Init /\ [][NextDetach]_vars

\* ================================================================= properties
HubVars == <<heap, devices, scheduled_tasks, automated_triggers, delivered>>

AllCalls == Calls(DeviceIds, CreateInputs)

MainCalls == Calls(ExampleIds, CreateInputs) \cup ExampleCalls

AlreadyExists(device_id) == <<"Device with ID " \o ToString(device_id) \o " already exists.">>

NotFound(device_id) == <<"Device with ID " \o ToString(device_id) \o " not found.">>

\* the report text the specification gives for one device
ExpectedReport(dev) ==
    CASE dev.device_type = "light" ->
             "Light " \o ToString(dev.device_id) \o " is " \o dev.status \o "."
      [] dev.device_type = "thermostat" ->
             "Thermostat is set to " \o ToString(dev.temperature) \o " degrees."
      [] dev.device_type = "door" -> "Door is " \o dev.status \o "."

\* the reports of the first n entries of a device map, in order, single-spaced
RECURSIVE ExpectedReports(_, _, _)
ExpectedReports(hp, d, n) ==
    IF n = 0 THEN ""
    ELSE IF n = 1 THEN ExpectedReport(hp[d[1].value.ref])
    ELSE ExpectedReports(hp, d, n - 1) \o " " \o ExpectedReport(hp[d[n].value.ref])

\* ------------------------------------------------------------------------ C1
\* the device a valid (kind, initial state) pair asks for
C1_Asked(a) ==
    CASE a[2] = "light" -> [device_id |-> a[1], device_type |-> "light", status |-> a[3][1]]
      [] a[2] = "thermostat" ->
             [device_id |-> a[1], device_type |-> "thermostat", temperature |-> a[4][1]]
      [] a[2] = "door" -> [device_id |-> a[1], device_type |-> "door", status |-> a[3][1]]

C1_ValidCalls ==
    {a \in AllCalls :
        \/ a[2] = "light" /\ a[3] \in {<<"on">>, <<"off">>}
        \/ a[2] = "thermostat" /\ a[4] # None
        \/ a[2] = "door" /\ a[3] \in {<<"locked">>, <<"unlocked">>}}

\* C1: for every device kind and every valid initial state of that kind,
\* create_device(id, kind, initial state) on an unregistered id followed
\* immediately by status_report() shows exactly that initial state for the
\* new device (after the reports of the devices registered before).
C1_CreateShowsInitialState ==
    \A a \in C1_ValidCalls :
        ~DictHas(devices, a[1]) =>
            LET r == create_device(Hub, a[1], a[2], a[3], a[4])
                before == ExpectedReports(heap, devices, Len(devices))
                asked == ExpectedReport(C1_Asked(a))
            IN  status_report(r.h).ret =
                    <<IF devices = <<>> THEN asked ELSE before \o " " \o asked>>

\* ------------------------------------------------------------------------ C2
C2_CallIsNoOp(r, device_id) ==
    /\ r.h = Hub
    /\ r.raised = None
    /\ r.printed = AlreadyExists(device_id)

\* C2: create_device or add_device with an id that is already registered
\* reports the duplicate and leaves the registry unchanged: the existing
\* device's kind, state and subscriber sequence, the set of registered ids
\* and the task and trigger sequences are the same as before the call.
C2_DuplicateIsNoOp ==
    /\ [](\A a \in MainCalls :
            DictHas(devices, a[1]) =>
                /\ C2_CallIsNoOp(create_device(Hub, a[1], a[2], a[3], a[4]), a[1])
                /\ C2_CallIsNoOp(add_device(Hub, a[1], a[2], a[3], a[4]), a[1]))
    /\ [][\A id \in ExampleIds :
            (/\ DictHas(devices, id)
             /\ last'.op \in {"create_device", "add_device"}
             /\ last'.printed = AlreadyExists(id)) => UNCHANGED HubVars]_vars

\* a duplicate add_device was made on a hub whose light 1 is on and that holds
\* a task and a trigger
C2_Witness ==
    /\ last.op = "add_device"
    /\ last.printed = AlreadyExists(1)
    /\ DictHas(devices, 1)
    /\ heap[DictGet(devices, 1).ref].device_type = "light"
    /\ heap[DictGet(devices, 1).ref].status = "on"
    /\ Len(devices) = 2
    /\ scheduled_tasks # <<>>
    /\ automated_triggers # <<>>

\* ------------------------------------------------------------------------ C3
C3_Without(d, device_id) == SelectSeq(d, LAMBDA e : e.key # device_id)

\* C3: remove_device(id) on an absent id reports DeviceNotFound and leaves
\* the device count unchanged; on a present id, however it was registered,
\* the device count decreases by exactly one, status_report() no longer
\* includes the device, and no later step brings the removed device back.
C3_RemoveDevice ==
    /\ [](\A id \in DeviceIds :
            LET r == remove_device(Hub, id)
            IN  IF DictHas(devices, id)
                THEN /\ Len(r.h.devices) = Len(devices) - 1
                     /\ r.h.devices = C3_Without(devices, id)
                     /\ DictGet(devices, id).ref \notin Registered(r.h.devices)
                     /\ status_report(r.h).ret =
                            <<ExpectedReports(heap, C3_Without(devices, id),
                                              Len(devices) - 1)>>
                ELSE /\ r.printed = NotFound(id)
                     /\ r.raised = None
                     /\ Len(r.h.devices) = Len(devices)
                     /\ r.h = Hub)
    /\ [][\A ref \in 1..Len(heap) :
            ref \notin Registered(devices) => ref \notin Registered(devices')]_vars

\* a device registered through add_device was removed while another stays
C3_Witness ==
    /\ last.op = "remove_device"
    /\ last.raised = <<"AttributeError">>
    /\ Len(devices) = 1
    /\ Len(heap) = 2

\* ------------------------------------------------------------------------ C4
\* C4: every error other than an unrecognized device kind is recoverable:
\* no registry operation raises to the caller, except create_device and
\* add_device with an unrecognized kind.
C4_NoCallRaises ==
    last.raised # None =>
        /\ last.op \in {"create_device", "add_device"}
        /\ last.raised = <<"ValueError">>

\* ------------------------------------------------------------------------ C5
\* one notification for each entry of a subscriber sequence, in its order
Notes(obs, message) ==
    [i \in 1..Len(obs) |-> [observer |-> obs[i], message |-> message]]

C5_Rejected(r, printed) ==
    /\ r.h = Hub
    /\ r.raised = None
    /\ r.printed = <<printed>>

C5_Forwarded(r, ref) ==
    /\ r.raised = None
    /\ r.printed = <<>>
    /\ Len(r.h.delivered) = Len(delivered) + Len(heap[ref].observers)

\* C5: through a DeviceProxy, set_temperature on a device that is not a
\* Thermostat and lock/unlock on a device that is not a DoorLock leave the
\* wrapped device (and the whole hub) unchanged and deliver no notification;
\* the same calls on a matching kind set the state and notify every subscriber.
C5_ProxyRejectsMismatch ==
    /\ [](\A ref \in ProxyRefs :
            /\ \A t \in Temperatures :
                  LET r == DeviceProxy_set_temperature(Hub, ref, t)
                  IN  IF heap[ref].device_type = "thermostat"
                      THEN C5_Forwarded(r, ref) /\ r.h.heap[ref].temperature = t
                      ELSE C5_Rejected(r, "This device does not support temperature control.")
            /\ LET r == DeviceProxy_lock(Hub, ref)
               IN  IF heap[ref].device_type = "door"
                   THEN C5_Forwarded(r, ref) /\ r.h.heap[ref].status = "locked"
                   ELSE C5_Rejected(r, "This device does not support locking.")
            /\ LET r == DeviceProxy_unlock(Hub, ref)
               IN  IF heap[ref].device_type = "door"
                   THEN C5_Forwarded(r, ref) /\ r.h.heap[ref].status = "unlocked"
                   ELSE C5_Rejected(r, "This device does not support unlocking."))
    /\ [][(/\ last'.op \in {"proxy.set_temperature", "proxy.lock", "proxy.unlock"}
            /\ last'.printed # <<>>) => UNCHANGED HubVars]_vars

\* lock() was rejected by the proxy of a light that is on and has two subscribers
C5_Witness ==
    /\ last.op = "proxy.lock"
    /\ last.printed = <<"This device does not support locking.">>
    /\ \E ref \in ProxyRefs :
          /\ heap[ref].device_type = "light"
          /\ heap[ref].status = "on"
          /\ heap[ref].observers = <<"o1", "o2">>

\* ------------------------------------------------------------------------ C9
\* the notification text the specification gives for the state a mutator set
C9_Message(dev) ==
    CASE dev.device_type = "light" ->
             "Light is turned " \o dev.status \o " (" \o dev.status \o ")"
      [] dev.device_type = "thermostat" ->
             "Thermostat temperature set to " \o ToString(dev.temperature) \o " degrees"
      [] dev.device_type = "door" -> "Door is " \o dev.status

\* the call returned after setting the device to `after` and then sending one
\* notification of that state to each subscriber, in order; nothing else changed
C9_SetThenNotified(r, ref, after) ==
    /\ r.raised = None
    /\ r.h.heap = [heap EXCEPT ![ref] = after]
    /\ r.h.delivered = delivered \o Notes(heap[ref].observers, C9_Message(after))
    /\ r.h.devices = devices
    /\ r.h.scheduled_tasks = scheduled_tasks
    /\ r.h.automated_triggers = automated_triggers

\* C9: every device mutator sets the state and then notifies synchronously:
\* each call of turn_on/turn_off on a Light, set_temperature on a Thermostat,
\* lock/unlock on a DoorLock appends to what has been delivered exactly one
\* notification per subscriber, in subscription order, carrying the state
\* that call set; so n calls deliver n notifications, in call order.
C9_MutatorsNotifyInOrder ==
    /\ [](\A ref \in ProxyRefs :
            LET dev == heap[ref]
            IN  /\ dev.device_type = "light" =>
                      /\ C9_SetThenNotified(DeviceProxy_turn_on(Hub, ref), ref,
                                            [dev EXCEPT !.status = "on"])
                      /\ C9_SetThenNotified(DeviceProxy_turn_off(Hub, ref), ref,
                                            [dev EXCEPT !.status = "off"])
                /\ dev.device_type = "thermostat" =>
                      \A t \in Temperatures :
                          C9_SetThenNotified(DeviceProxy_set_temperature(Hub, ref, t), ref,
                                            [dev EXCEPT !.temperature = t])
                /\ dev.device_type = "door" =>
                      /\ C9_SetThenNotified(DeviceProxy_lock(Hub, ref), ref,
                                            [dev EXCEPT !.status = "locked"])
                      /\ C9_SetThenNotified(DeviceProxy_unlock(Hub, ref), ref,
                                            [dev EXCEPT !.status = "unlocked"]))
    /\ [](\A id \in DeviceIds :
            (DictHas(devices, id) /\ heap[DictGet(devices, id).ref].device_type = "light") =>
                LET ref == DictGet(devices, id).ref
                IN  /\ C9_SetThenNotified(turn_on(Hub, id), ref,
                                          [heap[ref] EXCEPT !.status = "on"])
                    /\ C9_SetThenNotified(turn_off(Hub, id), ref,
                                          [heap[ref] EXCEPT !.status = "off"]))
    /\ [][\A i \in 1..Len(delivered) : delivered'[i] = delivered[i]]_vars

\* a light with one subscriber was turned on and then off: two notifications
C9_Witness ==
    /\ last.op \in {"turn_off", "proxy.turn_off"}
    /\ delivered = <<[observer |-> "o1", message |-> "Light is turned on (on)"],
                     [observer |-> "o1", message |-> "Light is turned off (off)"]>>


\* ------------------------------------------------------------------------ C6
\* the positions below n of the tasks whose time equals the tick's clock reading
C6_DueBelow(n) ==
    SelectSeq([k \in 1..(IF n > Len(scheduled_tasks) THEN Len(scheduled_tasks) ELSE n) |-> k],
              LAMBDA k : scheduled_tasks[k].time = sched.current_time)

\* this step is the scheduler's for loop handling the task at its position
C6_LoopStep ==
    /\ sched.pc = "for"
    /\ sched.i <= Len(scheduled_tasks)
    /\ sched' # sched

\* device 1 is registered and is a light
C6_LightOne ==
    /\ DictHas(devices, 1)
    /\ heap[DictGet(devices, 1).ref].device_type = "light"

C7_Fails(c) ==
    \/ c \in {"turn_on(1", "blink(1)"}
    \/ /\ c \in {"turn_on(1)", "turn_off(1)"}
       /\ ~C6_LightOne
    \/ /\ c = "remove_device(1)"
       /\ ~DictHas(devices, 1)

\* C7: a scheduled command that fails (malformed, unresolvable, unregistered id,
\* device without the capability) is reported and changes nothing; the failure
\* never leaves the scheduler: the loop goes on to the next task of the tick.
C7_FailingCommandIsContained ==
    /\ [](sched.pc # "raised")
    /\ [](\A c \in Commands :
            LET r == execute_command(Hub, c)
            IN  /\ r.raised = None
                /\ C7_Fails(c) => r.h = Hub /\ r.printed # <<>>)
    /\ [][C6_LoopStep /\ scheduled_tasks[sched.i].time = sched.current_time
            /\ C7_Fails(scheduled_tasks[sched.i].action)
              => /\ UNCHANGED HubVars
                 /\ sched' = [sched EXCEPT !.i = @ + 1]
                 /\ fired' = Append(fired, sched.i)]_vars

\* a tick is over in which the first due task was malformed and the second due
\* task, "turn_on(1)", was still dispatched and turned the light on
C7_Witness ==
    /\ sched.pc = "while"
    /\ Len(scheduled_tasks) = 2
    /\ scheduled_tasks[1].action = "turn_on(1"
    /\ scheduled_tasks[2].action = "turn_on(1)"
    /\ fired = <<1, 2>>
    /\ C6_LightOne
    /\ heap[DictGet(devices, 1).ref].status = "on"

\* ------------------------------------------------------------------------ C8
\* C8: once cancellation is requested the scheduler stops within one tick
\* interval: at most the tick that follows the request still begins.
C8_CancelStopsWithinOneTick == cancel.requested => cancel.ticks <= 1

\* ----------------------------------------------------------------------- C10
\* the keys of the device dictionary, in dictionary order
C10_Keys(d) == [i \in 1..Len(d) |-> d[i].key]

\* the example: ids 1, 2, 3 registered in that order, the light on, the
\* thermostat at 70 and the door locked
C10_Example ==
    /\ C10_Keys(devices) = <<1, 2, 3>>
    /\ LET l == heap[DictGet(devices, 1).ref]
           t == heap[DictGet(devices, 2).ref]
           k == heap[DictGet(devices, 3).ref]
       IN  /\ l.device_type = "light" /\ l.status = "on"
           /\ t.device_type = "thermostat" /\ t.temperature = 70
           /\ k.device_type = "door" /\ k.status = "locked"

\* C10: status_report returns the registered devices' report strings joined by
\* single spaces in registration order and changes nothing; for the example it
\* is "Light 1 is on. Thermostat is set to 70 degrees. Door is locked.".
C10_StatusReport ==
    /\ [](LET r == status_report(Hub)
          IN  /\ r.raised = None
              /\ r.printed = <<>>
              /\ r.h = Hub
              /\ r.ret = <<ExpectedReports(heap, devices, Len(devices))>>
              /\ C10_Example =>
                    r.ret = <<"Light 1 is on. Thermostat is set to 70 degrees. Door is locked.">>)
    /\ [][last'.op = "status_report" =>
              /\ UNCHANGED HubVars
              /\ last'.ret = <<ExpectedReports(heap, devices, Len(devices))>>]_vars
    /\ [][LET old == C10_Keys(devices)
              new == C10_Keys(devices')
          IN  \/ new = old
              \/ \E id \in ExampleIds : ~DictHas(devices, id) /\ new = Append(old, id)
              \/ \E id \in ExampleIds : new = SelectSeq(old, LAMBDA x : x # id)]_vars

\* the report of the example was asked for and came back as the example's text
C10_Witness ==
    /\ last.op = "status_report"
    /\ C10_Example
    /\ last.ret = <<"Light 1 is on. Thermostat is set to 70 degrees. Door is locked.">>

\* ----------------------------------------------------------------------- C11
\* the observer has no entry in the sequence
C11_Absent(obs, o) == \A i \in 1..Len(obs) : obs[i] # o

\* C11: unsubscribing an observer that is not in a device's subscriber
\* sequence is reported and not fatal: the call returns normally and leaves
\* the subscriber sequence and the device state as they were.
C11_UnsubscribeAbsentReturns ==
    \A ref \in Reachable, o \in Observers :
        C11_Absent(heap[ref].observers, o) =>
            LET r == remove_observer(Hub, ref, o)
            IN  /\ r.raised = None
                /\ r.h = Hub

\* ----------------------------------------------------------------------- C12
\* the calls that name a kind the hub does not know
C12_UnknownKindCalls == {a \in AllCalls : a[2] \notin {"light", "thermostat", "door"}}

\* C12: create_device and add_device with an unrecognized kind on an
\* unregistered id raise an error that aborts only that call: no entry is
\* added, the devices, tasks and triggers are unchanged, and the hub the
\* next call finds is the hub as it was before.
C12_UnknownKindAbortsCall ==
    /\ [](\A a \in C12_UnknownKindCalls :
            ~DictHas(devices, a[1]) =>
                LET c == create_device(Hub, a[1], a[2], a[3], a[4])
                    d == add_device(Hub, a[1], a[2], a[3], a[4])
                IN  /\ c.raised = <<"ValueError">>
                    /\ c.h = Hub
                    /\ d.raised = <<"ValueError">>
                    /\ d.h = Hub)
    /\ [][last'.op \in {"create_device", "add_device"} /\ last'.raised # None
            => UNCHANGED HubVars]_vars

\* add_device of an unknown kind was refused on a hub that holds a device
C12_Witness ==
    /\ last.op = "add_device"
    /\ last.raised = <<"ValueError">>
    /\ Len(devices) = 1
    /\ ~DictHas(devices, 2)

\* ----------------------------------------------------------------------- C13
\* C13: whatever a caller does to a sequence that get_scheduled_tasks() or
\* get_automated_triggers() returned (append, delete, edit of an entry), the
\* hub's stored task and trigger sequences stay as they were.
C13_ReturnedListsAreDetached ==
    [][last'.op \in {"list.append", "del list[0]", "list[0]['action'] = x"}
         => UNCHANGED <<scheduled_tasks, automated_triggers>>]_vars

\* ----------------------------------------------------------------------- C14
\* C14: set_schedule always succeeds and appends one task at the end; a stored
\* task is never modified or removed by any hub operation, remove_device and
\* scheduler ticks included: the task sequence before a step is a prefix of
\* the task sequence after it.
C14_TasksOnlyGrow ==
    /\ [](\A id \in DeviceIds, c \in EvalCommands :
            LET r == set_schedule(Hub, id, "06:00", c)
            IN  /\ r.raised = None
                /\ r.h.scheduled_tasks =
                       Append(scheduled_tasks,
                              [device |-> id, time |-> "06:00", action |-> c]))
    /\ [][/\ Len(scheduled_tasks) <= Len(scheduled_tasks')
          /\ \A i \in 1..Len(scheduled_tasks) : scheduled_tasks'[i] = scheduled_tasks[i]]_vars

\* ----------------------------------------------------------------------- C15
\* the subscriber sequences of up to MaxEntries entries
C15_Sequences == UNION {[1..n -> Observers] : n \in 0..MaxEntries}

\* the hub with the subscriber sequence of one device replaced
C15_With(ref, s) == [Hub EXCEPT !.heap[ref].observers = s]

\* r is s without its first entry equal to o, the other entries in their order
C15_FirstRemoved(s, o, r) ==
    /\ Len(r) = Len(s) - 1
    /\ \E n \in 1..Len(s) :
          /\ s[n] = o
          /\ \A j \in 1..(n - 1) : s[j] # o /\ r[j] = s[j]
          /\ \A j \in n..Len(r) : r[j] = s[j + 1]

\* C15: notify delivers each event once per subscriber entry, in subscription
\* order; subscribe appends without deduplication (k entries, k copies);
\* unsubscribe removes only the first matching entry and keeps the order of
\* the remaining ones.
C15_OnePerEntryInOrder ==
    \A ref \in Reachable, s \in C15_Sequences :
        /\ \A o \in Observers :
              /\ add_observer(C15_With(ref, s), ref, o).h = C15_With(ref, Append(s, o))
              /\ (\E i \in 1..Len(s) : s[i] = o) =>
                    LET r == remove_observer(C15_With(ref, s), ref, o)
                    IN  /\ r.raised = None
                        /\ C15_FirstRemoved(s, o, r.h.heap[ref].observers)
                        /\ r.h = C15_With(ref, r.h.heap[ref].observers)
        /\ LET h == notify_observers(C15_With(ref, s), ref, "event")
           IN  /\ Len(h.delivered) = Len(delivered) + Len(s)
               /\ \A i \in 1..Len(delivered) : h.delivered[i] = delivered[i]
               /\ \A i \in 1..Len(s) :
                     h.delivered[Len(delivered) + i] = [observer |-> s[i], message |-> "event"]
               /\ h = [C15_With(ref, s) EXCEPT !.delivered = h.delivered]

\* o1 was subscribed twice, got two copies of one event, and one unsubscribe
\* then removed one of its two entries
C15_Witness ==
    /\ last.op = "remove_observer"
    /\ last.raised = None
    /\ delivered = <<[observer |-> "o1", message |-> "Light is turned on (on)"],
                     [observer |-> "o1", message |-> "Light is turned on (on)"]>>
    /\ \E ref \in Reachable : heap[ref].observers = <<"o1">>

\* ----------------------------------------------------------------------- C16
\* the call returned having set the light at ref to `power`, told each of its
\* subscribers in order, and left everything else as it was
C16_Switched(r, ref, power) ==
    /\ r.raised = None
    /\ Len(r.h.heap) = Len(heap)
    /\ r.h.heap[ref] = [heap[ref] EXCEPT !.status = power]
    /\ \A other \in 1..Len(heap) : other # ref => r.h.heap[other] = heap[other]
    /\ r.h.delivered =
           delivered \o Notes(heap[ref].observers,
                              "Light is turned " \o power \o " (" \o power \o ")")
    /\ r.h.devices = devices
    /\ r.h.scheduled_tasks = scheduled_tasks
    /\ r.h.automated_triggers = automated_triggers

\* the call reported that the id is not registered and did nothing else
C16_NotFound(r, id) ==
    /\ r.raised = None
    /\ r.printed = NotFound(id)
    /\ r.h = Hub

\* C16: hub turn_on(id)/turn_off(id) with a registered Light sets that light
\* on/off, notifies its subscribers and leaves every other device, the
\* registered ids, the tasks and the triggers unchanged; with an unregistered
\* id it reports not-found, changes nothing and notifies nobody.
C16_HubSwitchFrame ==
    \A id \in DeviceIds :
        IF DictHas(devices, id)
        THEN LET ref == DictGet(devices, id).ref
             IN  heap[ref].device_type = "light" =>
                     /\ C16_Switched(turn_on(Hub, id), ref, "on")
                     /\ C16_Switched(turn_off(Hub, id), ref, "off")
        ELSE /\ C16_NotFound(turn_on(Hub, id), id)
             /\ C16_NotFound(turn_off(Hub, id), id)

\* light 2, registered after a thermostat and subscribed to, was turned on and
\* then off through the hub
C16_Witness ==
    /\ last.op = "turn_off"
    /\ last.raised = None
    /\ Len(devices) = 2
    /\ devices[2].key = 2
    /\ heap[devices[1].value.ref].device_type = "thermostat"
    /\ heap[devices[2].value.ref].device_type = "light"
    /\ heap[devices[2].value.ref].status = "off"
    /\ heap[devices[2].value.ref].observers = <<"o1">>
    /\ delivered = <<[observer |-> "o1", message |-> "Light is turned on (on)"],
                     [observer |-> "o1", message |-> "Light is turned off (off)"]>>

\* ----------------------------------------------------------------------- C17
\* what a caller can see of a hub: the registered ids in order, the state of
\* each registered device, the report, the tasks and the triggers
C17_View(h) ==
    [ids |-> [i \in 1..Len(h.devices) |-> h.devices[i].key],
     states |-> [i \in 1..Len(h.devices) |-> h.heap[h.devices[i].value.ref]],
     report |-> status_report(h).ret,
     scheduled_tasks |-> h.scheduled_tasks,
     automated_triggers |-> h.automated_triggers]

\* two results agree: same outcome (return or the same error) and same view
C17_Same(ra, rc) ==
    /\ ra.raised = rc.raised
    /\ C17_View(ra.h) = C17_View(rc.h)

\* C17: registering through add_device is equivalent to registering through
\* create_device: from equal hubs the two registrations, followed by the same
\* hub operation (turn_on, turn_off, remove_device, status_report), give the
\* same registry contents, device states, reports and outcomes.
C17_AddEqualsCreate ==
    \A a \in AllCalls :
        ~DictHas(devices, a[1]) =>
            LET ra == add_device(Hub, a[1], a[2], a[3], a[4])
                rc == create_device(Hub, a[1], a[2], a[3], a[4])
            IN  /\ C17_Same(ra, rc)
                /\ \A id \in DeviceIds :
                      /\ C17_Same(turn_on(ra.h, id), turn_on(rc.h, id))
                      /\ C17_Same(turn_off(ra.h, id), turn_off(rc.h, id))
                      /\ C17_Same(remove_device(ra.h, id), remove_device(rc.h, id))

\* ----------------------------------------------------------------------- C18
\* C18: within one tick only tasks that were stored when the tick began are
\* dispatched: a task that a dispatched action appends during the tick waits
\* for a later tick, so a tick makes at most as many dispatches as there were
\* tasks when it began.
C18_OnlyTasksStoredAtTickStart ==
    sched.pc \in {"for", "while"} =>
        /\ Len(fired) <= sched.n
        /\ \A k \in 1..Len(fired) : fired[k] <= sched.n

\* ----------------------------------------------------------------------- C19
\* the observers that have an entry in the subscriber sequence of the device
C19_Subscribed(ref) == {heap[ref].observers[i] : i \in 1..Len(heap[ref].observers)}

\* the call on the device at ref delivered nothing to an observer that had no
\* entry in that device's subscriber sequence when the call was made
C19_OnlyToSubscribed(r, ref) ==
    /\ Len(r.h.delivered) >= Len(delivered)
    /\ \A i \in 1..Len(delivered) : r.h.delivered[i] = delivered[i]
    /\ \A i \in (Len(delivered) + 1)..Len(r.h.delivered) :
          r.h.delivered[i].observer \in C19_Subscribed(ref)

\* C19: an observer is notified by a device only of mutations made while it
\* has an entry in that device's subscriber sequence: not of mutations before
\* it subscribed (the mutator calls by which create_device applies the initial
\* state reach no observer at all), nor after its last entry was unsubscribed.
C19_NotifiedOnlyWhileSubscribed ==
    /\ [](\A ref \in Reachable :
            /\ C19_OnlyToSubscribed(DeviceProxy_turn_on(Hub, ref), ref)
            /\ C19_OnlyToSubscribed(DeviceProxy_turn_off(Hub, ref), ref)
            /\ C19_OnlyToSubscribed(DeviceProxy_lock(Hub, ref), ref)
            /\ C19_OnlyToSubscribed(DeviceProxy_unlock(Hub, ref), ref)
            /\ \A t \in Temperatures :
                  C19_OnlyToSubscribed(DeviceProxy_set_temperature(Hub, ref, t), ref)
            /\ \A o \in Observers :
                  /\ add_observer(Hub, ref, o).h.delivered = delivered
                  /\ remove_observer(Hub, ref, o).h.delivered = delivered)
    /\ [](\A id \in DeviceIds :
            /\ C19_OnlyToSubscribed(turn_on(Hub, id),
                                    IF DictHas(devices, id) THEN DictGet(devices, id).ref ELSE 0)
            /\ C19_OnlyToSubscribed(turn_off(Hub, id),
                                    IF DictHas(devices, id) THEN DictGet(devices, id).ref ELSE 0))
    /\ [](\A a \in AllCalls :
            /\ create_device(Hub, a[1], a[2], a[3], a[4]).h.delivered = delivered
            /\ add_device(Hub, a[1], a[2], a[3], a[4]).h.delivered = delivered)
    /\ [][\A i \in (Len(delivered) + 1)..Len(delivered') :
              \E ref \in Reachable : delivered'[i].observer \in C19_Subscribed(ref)]_vars

\* o1 was told of the turn-on made while it was subscribed; the turn-off after
\* it was unsubscribed reached only o2, which had subscribed in between
C19_Witness ==
    /\ last.op \in {"turn_off", "proxy.turn_off"}
    /\ delivered = <<[observer |-> "o1", message |-> "Light is turned on (on)"],
                     [observer |-> "o2", message |-> "Light is turned off (off)"]>>
    /\ \E ref \in Reachable : heap[ref].observers = <<"o2">>

\* ----------------------------------------------------------------------- C20
\* the devices the caller holds a proxy for that are no longer registered
C20_Detached == proxies \ Registered(devices)

\* the call through the proxy of the detached device at ref changed at most
\* that device: the registry, its report and every other device are as before
C20_OnlyDetachedChanged(r, ref) ==
    /\ r.h.devices = devices
    /\ status_report(r.h).ret = status_report(Hub).ret
    /\ Len(r.h.heap) = Len(heap)
    /\ \A other \in 1..Len(heap) : other # ref => r.h.heap[other] = heap[other]
    /\ r.h.scheduled_tasks = scheduled_tasks
    /\ r.h.automated_triggers = automated_triggers

\* the state a device of the kind has when nothing else was asked for
C20_Default(id, kind) ==
    CASE kind = "light" ->
             [device_id |-> id, device_type |-> kind, observers |-> <<>>, status |-> "off"]
      [] kind = "thermostat" ->
             [device_id |-> id, device_type |-> kind, observers |-> <<>>, temperature |-> 70]
      [] kind = "door" ->
             [device_id |-> id, device_type |-> kind, observers |-> <<>>, status |-> "locked"]

\* C20: after remove_device(id), operations through a proxy obtained earlier
\* for that device change only the detached device, never the registry or its
\* report; a later create_device with the same id registers a fresh device
\* with the kind's default state and no subscribers, which is not the device
\* the old proxy controls.
C20_DetachedProxyIsHarmless ==
    /\ \A ref \in C20_Detached :
          /\ C20_OnlyDetachedChanged(DeviceProxy_turn_on(Hub, ref), ref)
          /\ C20_OnlyDetachedChanged(DeviceProxy_turn_off(Hub, ref), ref)
          /\ C20_OnlyDetachedChanged(DeviceProxy_lock(Hub, ref), ref)
          /\ C20_OnlyDetachedChanged(DeviceProxy_unlock(Hub, ref), ref)
          /\ \A t \in Temperatures :
                C20_OnlyDetachedChanged(DeviceProxy_set_temperature(Hub, ref, t), ref)
    /\ \A a \in Calls(DeviceIds, DefaultInputs) :
          ~DictHas(devices, a[1]) =>
              LET r == create_device(Hub, a[1], a[2], a[3], a[4])
                  new == DictGet(r.h.devices, a[1]).ref
              IN  /\ r.raised = None
                  /\ new \notin 1..Len(heap)
                  /\ new \notin proxies
                  /\ r.ret = <<[proxy |-> TRUE, ref |-> new]>>
                  /\ r.h.heap[new] = C20_Default(a[1], a[2])
                  /\ \A old \in 1..Len(heap) : r.h.heap[old] = heap[old]

\* light 1 was subscribed to, removed and created again; the old proxy then
\* turned the detached light on, and the registered light is off, unsubscribed
C20_Witness ==
    /\ last.op = "proxy.turn_on"
    /\ last.raised = None
    /\ DictHas(devices, 1)
    /\ heap[DictGet(devices, 1).ref] = C20_Default(1, "light")
    /\ \E ref \in C20_Detached :
          /\ heap[ref].device_id = 1
          /\ heap[ref].device_type = "light"
          /\ heap[ref].status = "on"
          /\ heap[ref].observers = <<"o1">>

====
